---- MODULE Spec2Model ----
(***************************************************************************)
(* TrustRoll: an encrypted lottery contract (Solidity, FHEVM).             *)
(*                                                                         *)
(* The contract keeps three mappings keyed by player address (balances,    *)
(* tickets, lastResults) whose entries are handles of encrypted values.    *)
(* The FHE library the contract calls (handle store, homomorphic           *)
(* operations, input verification, access-control list, randomness) is a   *)
(* dependency outside the repository; it is modelled here as the engine    *)
(* the specification describes: every created handle is fresh, grants are  *)
(* a set of principals per handle, operands must be readable by the        *)
(* contract.                                                               *)
(*                                                                         *)
(* Number representation.  TLC integers are 32-bit signed, so              *)
(*   - a uint32 / uint8 / bool plaintext is a pair <<hi, lo>> of 16-bit    *)
(*     limbs (value = hi * 65536 + lo);                                    *)
(*   - a uint256 amount of wei is a little-endian sequence of base-100     *)
(*     digits without leading zero digits (<<>> is zero).                  *)
(* A transaction is one atomic action: the body is evaluated statement by  *)
(* statement on a transaction context and committed only if it did not     *)
(* revert.                                                                 *)
(***************************************************************************)
EXTENDS Integers, Sequences, FiniteSets, TLC

VARIABLES
    balances,     \* mapping(address => euint32)      part_000:27
    tickets,      \* mapping(address => Ticket)       part_000:28
    lastResults,  \* mapping(address => DrawResult)   part_000:29
    cipher,       \* handle store: handle h |-> [w, v] (bit width, plaintext)
    acl,          \* access-control list: handle h |-> set of principals granted
    last,         \* the last transaction: inputs, outcome, pre-state of the caller
    nOps,         \* number of transactions issued so far
    progress,     \* per player, how far its history follows the reference scenario
    ledger,       \* per player, the account of its successful transactions
    ui            \* the state of the web client (TrustRollApp) of one connected wallet

vars ==
    <<balances, tickets, lastResults, cipher, acl, last, nOps, progress, ledger, ui>>

-----------------------------------------------------------------------------
(* Bounds of the model *)

MaxOps == 3

\* most handler invocations of the web client in flight at a time
MaxPending == 2

-----------------------------------------------------------------------------
(* Principals *)

Players == {"alice", "bob"}

\* address(this): the contract as a principal of the access-control list
Contract == "TrustRoll"

\* some other contract an input proof may be bound to
OtherContract == "OtherContract"

-----------------------------------------------------------------------------
(* Program constants *)

POINTS_PER_ETH == 10000
TICKET_COST == 10
ONE_MATCH_REWARD == 100
TWO_MATCH_REWARD == 1000

\* 1 ether = 10^18 wei = 100^9: nine base-100 digits
EtherDigits == 9

\* revert reasons
ZeroPayment == "No ETH sent"
BelowMinimum == "Insufficient ETH for points"
NoActiveTicket == "Ticket missing"
InvalidProof == "InvalidProof"
Unauthorized == "Unauthorized"

-----------------------------------------------------------------------------
(* Fixed-width unsigned arithmetic on limb pairs *)

W16 == 65536

\* the uint32 with value n, for 0 <= n < 2^31
U32(n) == <<n \div W16, n % W16>>

\* the value of a limb pair whose value is below 2^31
Small(a) == a[1] * W16 + a[2]

\* a + b mod 2^32
Add32(a, b) ==
    LET lo == a[2] + b[2]
        hi == a[1] + b[1] + (lo \div W16)
    IN  <<hi % W16, lo % W16>>

\* a - b mod 2^32
Sub32(a, b) ==
    LET lo == a[2] - b[2]
        borrow == IF lo < 0 THEN 1 ELSE 0
        hi == a[1] - b[1] - borrow
    IN  <<(hi + 2 * W16) % W16, (lo + W16) % W16>>

\* a + b mod 2^8
Add8(a, b) == <<0, (a[2] + b[2]) % 256>>

-----------------------------------------------------------------------------
(* uint256 amounts as little-endian base-100 digit sequences *)

RECURSIVE Digits(_)
Digits(n) == IF n = 0 THEN <<>> ELSE <<n % 100>> \o Digits(n \div 100)

RECURSIVE Zeros(_)
Zeros(k) == IF k = 0 THEN <<>> ELSE <<0>> \o Zeros(k - 1)

\* the amount m * 100^k wei
Wei(m, k) == IF m = 0 THEN <<>> ELSE Zeros(k) \o Digits(m)

\* a * k + c, for a small multiplier k and carry c
RECURSIVE MulSmall(_, _, _)
MulSmall(a, k, c) ==
    IF a = <<>> THEN Digits(c)
    ELSE LET t == a[1] * k + c
         IN  <<t % 100>> \o MulSmall(Tail(a), k, t \div 100)

\* a / 1 ether, rounding down
DivEther(a) ==
    IF Len(a) <= EtherDigits THEN <<>> ELSE SubSeq(a, EtherDigits + 1, Len(a))

\* uint32(a): the low 32 bits of a
RECURSIVE ToUint32(_)
ToUint32(a) ==
    IF a = <<>> THEN <<0, 0>>
    ELSE LET r == ToUint32(Tail(a))
             lo == r[2] * 100 + a[1]
             hi == r[1] * 100 + (lo \div W16)
         IN  <<hi % W16, lo % W16>>

-----------------------------------------------------------------------------
(* Transaction context: the storage, the engine's state and the local      *)
(* variables of the running function, as the body of one transaction sees  *)
(* them.  err is the revert reason, "" while the transaction has not       *)
(* reverted; a reverted context is left as it is by every later statement. *)
(* log lists, in order, the handles the body created (by kind), read as    *)
(* operands, granted and stored.                                           *)

NoTicket == [firstNumber |-> 0, secondNumber |-> 0, exists |-> FALSE]
NoDraw == [firstWinning |-> 0, secondWinning |-> 0, reward |-> 0]

\* local variables and temporaries of the three functions
Locals ==
    {"addedPoints", "updatedBalance", "cost", "firstEncrypted", "secondEncrypted",
     "baseOne", "zero", "randomFirst", "randomSecond", "winningFirst",
     "winningSecond", "firstHit", "secondHit", "totalHits", "reward",
     "rem", "eq", "lit"}

Begin ==
    [balances |-> balances, tickets |-> tickets, lastResults |-> lastResults,
     cipher |-> cipher, acl |-> acl, transient |-> {},
     local |-> [n \in Locals |-> 0], log |-> <<>>, err |-> ""]

\* operands: a local variable, or a storage slot of a player
Local(name) == <<"local", name>>
BalanceOf(player) == <<"balances", player>>
FirstNumberOf(player) == <<"firstNumber", player>>
SecondNumberOf(player) == <<"secondNumber", player>>

Read(t, x) ==
    CASE x[1] = "local" -> t.local[x[2]]
      [] x[1] = "balances" -> t.balances[x[2]]
      [] x[1] = "firstNumber" -> t.tickets[x[2]].firstNumber
      [] x[1] = "secondNumber" -> t.tickets[x[2]].secondNumber

require(t, cond, reason) ==
    IF t.err = "" /\ ~cond THEN [t EXCEPT !.err = reason] ELSE t

\* record what was just done to the handle of local variable name
Logged(t, what, name) ==
    IF t.err # "" THEN t ELSE [t EXCEPT !.log = Append(@, <<what, t.local[name]>>)]

-----------------------------------------------------------------------------
(* The encrypted-computation engine (FHE library): handle store,           *)
(* homomorphic operations, input verification, grants, randomness.         *)
(* Every operation assigns its result handle to the local variable dst.    *)

\* bytes32(0): the handle of an uninitialized encrypted value
isInitialized(h) == h # 0

\* a new handle for plaintext v of width w: never equal to an earlier handle,
\* no grant yet, readable by the contract for the rest of the transaction
Fresh(t, dst, w, v) ==
    IF t.err # "" THEN t
    ELSE [t EXCEPT !.cipher = Append(@, [w |-> w, v |-> v]),
                   !.acl = Append(@, {}),
                   !.transient = @ \cup {Len(t.cipher) + 1},
                   !.local[dst] = Len(t.cipher) + 1]

\* may principal p read handle h
isAllowed(t, h, p) ==
    /\ h \in DOMAIN t.cipher
    /\ \/ p \in t.acl[h]
       \/ p = Contract /\ h \in t.transient

asEuint32(t, dst, n) == Logged(Fresh(t, dst, 32, U32(n)), "literal", dst)
asEuint8(t, dst, n) == Logged(Fresh(t, dst, 8, <<0, n>>), "literal", dst)

\* the plaintext behind operand x; an uninitialized operand is an encrypted zero
Plain(t, x) == IF isInitialized(Read(t, x)) THEN t.cipher[Read(t, x)].v ELSE <<0, 0>>

\* the contract may read operand x
Readable(t, x) == ~isInitialized(Read(t, x)) \/ isAllowed(t, Read(t, x), Contract)

\* an uninitialized operand is replaced by a fresh encrypted zero
Operand(t, w, x) ==
    IF t.err = "" /\ ~isInitialized(Read(t, x))
    THEN [t EXCEPT !.cipher = Append(@, [w |-> w, v |-> <<0, 0>>]),
                   !.acl = Append(@, {}),
                   !.transient = @ \cup {Len(t.cipher) + 1}]
    ELSE t

\* record that the operands xs are read by a computation
Used(t, xs) ==
    [t EXCEPT !.log = @ \o [i \in 1..Len(xs) |-> <<"use", Read(t, xs[i])>>]]

\* a binary operation: both operands readable by the contract, result fresh
Binary(t, dst, wIn, wOut, a, b, F(_, _)) ==
    IF t.err # "" THEN t
    ELSE IF ~(Readable(t, a) /\ Readable(t, b)) THEN [t EXCEPT !.err = Unauthorized]
    ELSE Logged(Fresh(Operand(Operand(Used(t, <<a, b>>), wIn, a), wIn, b), dst, wOut,
                      F(Plain(t, a), Plain(t, b))), "compute", dst)

Eq8(a, b) == <<0, IF a = b THEN 1 ELSE 0>>

FHEadd32(t, dst, a, b) == Binary(t, dst, 32, 32, a, b, Add32)
FHEsub32(t, dst, a, b) == Binary(t, dst, 32, 32, a, b, Sub32)
FHEadd8(t, dst, a, b) == Binary(t, dst, 8, 8, a, b, Add8)
FHEeq8(t, dst, a, b) == Binary(t, dst, 8, 1, a, b, Eq8)

\* remainder of an encrypted byte by a plaintext divisor
FHErem8(t, dst, a, k) ==
    IF t.err # "" THEN t
    ELSE IF ~Readable(t, a) THEN [t EXCEPT !.err = Unauthorized]
    ELSE Logged(Fresh(Operand(Used(t, <<a>>), 8, a), dst, 8,
                      <<0, Plain(t, a)[2] % k>>),
                "compute", dst)

\* encrypted ternary: the value of x when c is true, of y otherwise
FHEselect(t, dst, c, x, y) ==
    IF t.err # "" THEN t
    ELSE IF ~(Readable(t, c) /\ Readable(t, x) /\ Readable(t, y))
         THEN [t EXCEPT !.err = Unauthorized]
    ELSE Logged(Fresh(Used(t, <<c, x, y>>), dst, t.cipher[Read(t, x)].w,
                      IF Plain(t, c)[2] = 1 THEN Plain(t, x) ELSE Plain(t, y)),
                "compute", dst)

\* a fresh encrypted byte; r is the byte the source draws
randEuint8(t, dst, r) == Logged(Fresh(t, dst, 8, <<0, r>>), "random", dst)

\* An encrypted input as the client builds it: the plaintexts it encrypts
\* and the (target contract, submitter) pair its proof is bound to.
\* fromExternal admits ciphertext i of the batch if the proof binds the batch
\* to (this contract, msg.sender).
fromExternal(t, dst, i, proof, sender) ==
    IF t.err # "" THEN t
    ELSE IF ~(proof.target = Contract /\ proof.user = sender
                /\ i \in DOMAIN proof.values)
         THEN [t EXCEPT !.err = InvalidProof]
    ELSE Logged(Fresh(t, dst, 8, <<0, proof.values[i]>>), "admit", dst)

\* grants; the granter must itself be able to read the handle
allow(t, name, p) ==
    IF t.err # "" THEN t
    ELSE IF ~isAllowed(t, t.local[name], Contract) THEN [t EXCEPT !.err = Unauthorized]
    ELSE [t EXCEPT !.acl[t.local[name]] = @ \cup {p},
                   !.log = Append(@, <<"grant", t.local[name], p>>)]

allowThis(t, name) == allow(t, name, Contract)

\* the decrypt path: plaintext for a principal holding a grant on a handle
\* the contract can read, Unauthorized otherwise
userDecrypt(h, p) ==
    IF h \in DOMAIN cipher /\ p \in acl[h] /\ Contract \in acl[h]
    THEN [status |-> "ok", v |-> cipher[h].v]
    ELSE [status |-> Unauthorized, v |-> <<0, 0>>]

-----------------------------------------------------------------------------
(* The contract: storage writes, arithmetic, views *)

setBalance(t, player, name) ==
    Logged([t EXCEPT !.balances[player] = t.local[name]], "store", name)
setFirstNumber(t, player, name) ==
    Logged([t EXCEPT !.tickets[player].firstNumber = t.local[name]], "store", name)
setSecondNumber(t, player, name) ==
    Logged([t EXCEPT !.tickets[player].secondNumber = t.local[name]], "store", name)
setExists(t, player, b) == [t EXCEPT !.tickets[player].exists = b]
setLastResult(t, player, first, second, reward) ==
    Logged(Logged(Logged(
        [t EXCEPT !.lastResults[player] = [firstWinning |-> t.local[first],
                                           secondWinning |-> t.local[second],
                                           reward |-> t.local[reward]]],
        "store", first), "store", second), "store", reward)

\* slip: divides before it multiplies
PointsValue_DivideFirst(value) == MulSmall(DivEther(value), POINTS_PER_ETH, 0)

\* (msg.value * POINTS_PER_ETH) / 1 ether
PointsValue(value) == DivEther(MulSmall(value, POINTS_PER_ETH, 0))

getEncryptedBalance(player) == balances[player]

getTicket(player) ==
    <<tickets[player].firstNumber, tickets[player].secondNumber, tickets[player].exists>>

getLastDraw(player) ==
    <<lastResults[player].firstWinning, lastResults[player].secondWinning,
      lastResults[player].reward>>

-----------------------------------------------------------------------------
(* Inputs *)

\* 429496.73005 ether: buys 2^32 + 4 points (and a half)
BigAmount == <<0, 0, 0, 0, 0, 0, 50, 0, 73, 96, 94, 42>>

\* msg.value: nothing, 0.00005 ether, 1 ether, and BigAmount
EthAmounts == {Wei(0, 0), Wei(50, 6), Wei(1, 9), BigAmount}

\* the two numbers a client encrypts into a ticket
PickPairs == {<<1, 2>>, <<9, 9>>, <<200, 0>>}

\* the (target, submitter) pairs the proof submitted by sender may be bound
\* to: its own for this contract, another player's, the pair swapped, and
\* its own for another contract
ProofBindings(sender) ==
    {<<Contract, q>> : q \in Players}
        \cup {<<sender, Contract>>, <<OtherContract, sender>>}

\* the encrypted inputs sender may submit: every pick pair under its own
\* proof, one pick pair under each of the other bindings
TicketInputs(sender) ==
    {<<picks, <<Contract, sender>>>> : picks \in PickPairs}
        \cup {<<<<1, 2>>, binding>> : binding \in ProofBindings(sender)}

\* the bytes the randomness source may return
RandBytes == {9, 253, 255}

-----------------------------------------------------------------------------
(* Transactions.  The body of a function is the chain of its statements,   *)
(* each applied to the context the statement before it leaves; the         *)
(* transaction commits the last context or, if a statement reverted,       *)
(* changes nothing.                                                        *)

\* the caller's entries before the transaction
Snapshot(sender) ==
    [balance |-> balances[sender], ticket |-> tickets[sender],
     draw |-> lastResults[sender]]

\* The reference scenario of a player: from a fresh account, purchasePoints
\* with 1 ether (stage 1), then purchaseTicket with picks (1, 2) (stage 2),
\* then a playRound that draws (1, 2) (stage 3).  Any other successful
\* transaction of the player leaves the scenario (stage 4).
ScenarioStep(stage, t, op, input) ==
    CASE stage = 0 /\ op = "purchasePoints" /\ input.value = Wei(1, EtherDigits) -> 1
      [] stage = 1 /\ op = "purchaseTicket" /\ input.values = <<1, 2>> -> 2
      [] stage = 2 /\ op = "playRound"
             /\ Plain(t, Local("winningFirst")) = <<0, 1>>
             /\ Plain(t, Local("winningSecond")) = <<0, 2>> -> 3
      [] OTHER -> 4

\* The account of a player's successful transactions: the points its
\* purchasePoints calls were worth and the rewards its rounds drew (sums
\* modulo 2^32), how many tickets it bought and rounds it played, and how
\* many tickets it bought since its last round.
NoEntries ==
    [credited |-> <<0, 0>>, rewards |-> <<0, 0>>, tickets |-> 0, rounds |-> 0,
     since |-> 0]

\* floor(v * 10000 / UNIT) = floor(v / 10^14), on digit sequences
FloorPoints(v) == IF Len(v) <= 7 THEN <<>> ELSE SubSeq(v, 8, Len(v))

Booked(entries, t, op, input) ==
    CASE op = "purchasePoints" ->
           [entries EXCEPT !.credited = Add32(@, ToUint32(FloorPoints(input.value)))]
      [] op = "purchaseTicket" ->
           [entries EXCEPT !.tickets = @ + 1, !.since = @ + 1]
      [] op = "playRound" ->
           [entries EXCEPT !.rounds = @ + 1, !.since = 0,
                           !.rewards = Add32(@, Plain(t, Local("reward")))]

\* a transaction either commits the context its body ends in or reverts;
\* ret names the local variables returned
Commit(t, ret, op, sender, input) ==
    /\ nOps' = nOps + 1
    /\ ledger' = IF t.err = ""
                 THEN [ledger EXCEPT ![sender] = Booked(@, t, op, input)]
                 ELSE ledger
    /\ progress' = IF t.err = ""
                   THEN [progress EXCEPT ![sender] = ScenarioStep(@, t, op, input)]
                   ELSE progress
    /\ IF t.err = ""
       THEN /\ balances' = t.balances
            /\ tickets' = t.tickets
            /\ lastResults' = t.lastResults
            /\ cipher' = t.cipher
            /\ acl' = t.acl
       ELSE UNCHANGED <<balances, tickets, lastResults, cipher, acl>>
    /\ last' = [op |-> op, sender |-> sender,
                status |-> IF t.err = "" THEN "ok" ELSE t.err,
                input |-> input,
                prev |-> Snapshot(sender),
                ret |-> IF t.err = "" THEN [i \in DOMAIN ret |-> t.local[ret[i]]]
                        ELSE <<>>,
                local |-> IF t.err = "" THEN t.local ELSE [n \in Locals |-> 0],
                log |-> IF t.err = "" THEN t.log ELSE <<>>]

(* purchasePoints *)

\* slip: no minimum-purchase check
purchasePointsMint_NoMinimum(t, sender, value) ==
    LET t1 == require(t, value # <<>>, ZeroPayment)
        t3 == Logged(Fresh(t1, "addedPoints", 32, ToUint32(PointsValue(value))),
                     "literal", "addedPoints")
    IN  FHEadd32(t3, "updatedBalance", BalanceOf(sender), Local("addedPoints"))

purchasePointsMint(t, sender, value) ==
    LET t1 == require(t, value # <<>>, ZeroPayment)
        t2 == require(t1, PointsValue(value) # <<>>, BelowMinimum)
        t3 == Logged(Fresh(t2, "addedPoints", 32, ToUint32(PointsValue(value))),
                     "literal", "addedPoints")
    IN  FHEadd32(t3, "updatedBalance", BalanceOf(sender), Local("addedPoints"))

\* slip: the balance is written under a fixed address
purchasePointsStore_FixedKey(t, sender) == setBalance(t, "alice", "updatedBalance")

purchasePointsStore(t, sender) == setBalance(t, sender, "updatedBalance")

\* slip: grants a fixed address instead of the caller
purchasePointsGrant_FixedAddress(t, sender) ==
    allow(allowThis(t, "updatedBalance"), "updatedBalance", "alice")

purchasePointsGrant(t, sender) ==
    allow(allowThis(t, "updatedBalance"), "updatedBalance", sender)

\* variant: the grants come before the store
purchasePointsBody_GrantFirst(t, sender, value) ==
    purchasePointsStore(
        purchasePointsGrant(purchasePointsMint(t, sender, value), sender), sender)

\* the body of purchasePoints, run on context t
purchasePointsBody(t, sender, value) ==
    purchasePointsGrant(
        purchasePointsStore(purchasePointsMint(t, sender, value), sender), sender)

purchasePoints(sender, value) ==
    Commit(purchasePointsBody(Begin, sender, value),
           <<"updatedBalance">>, "purchasePoints", sender, [value |-> value])

(* purchaseTicket *)

\* variant: a second ticket is refused while one is active
purchaseTicketDebit_RejectActive(t, sender) ==
    LET t0 == require(t, ~t.tickets[sender].exists, "Ticket active")
        t1 == asEuint32(t0, "cost", TICKET_COST)
    IN  FHEsub32(t1, "updatedBalance", BalanceOf(sender), Local("cost"))

\* variant: debits only a balance that covers the cost
purchaseTicketDebit_Checked(t, sender) ==
    LET t1 == asEuint32(t, "cost", TICKET_COST)
    IN  IF Plain(t1, BalanceOf(sender))[1] = 0
            /\ Plain(t1, BalanceOf(sender))[2] < TICKET_COST
        THEN FHEadd32(asEuint32(t1, "lit", 0), "updatedBalance",
                      BalanceOf(sender), Local("lit"))
        ELSE FHEsub32(t1, "updatedBalance", BalanceOf(sender), Local("cost"))

purchaseTicketDebit(t, sender) ==
    FHEsub32(asEuint32(t, "cost", TICKET_COST),
             "updatedBalance", BalanceOf(sender), Local("cost"))

\* slip: uses the submitted ciphertexts without verifying the proof
purchaseTicketAdmit_Unverified(t, sender, firstNumber, secondNumber, inputProof) ==
    Logged(Fresh(Logged(Fresh(t, "firstEncrypted", 8, <<0, inputProof.values[firstNumber]>>),
                        "admit", "firstEncrypted"),
                 "secondEncrypted", 8, <<0, inputProof.values[secondNumber]>>),
           "admit", "secondEncrypted")

purchaseTicketAdmit(t, sender, firstNumber, secondNumber, inputProof) ==
    fromExternal(fromExternal(t, "firstEncrypted", firstNumber, inputProof, sender),
                 "secondEncrypted", secondNumber, inputProof, sender)

\* slip: stores the two picks in each other's slot
purchaseTicketStore_Swapped(t, sender) ==
    LET t1 == setBalance(t, sender, "updatedBalance")
        t2 == setFirstNumber(t1, sender, "secondEncrypted")
        t3 == setSecondNumber(t2, sender, "firstEncrypted")
    IN  setExists(t3, sender, TRUE)

purchaseTicketStore(t, sender) ==
    LET t1 == setBalance(t, sender, "updatedBalance")
        t2 == setFirstNumber(t1, sender, "firstEncrypted")
        t3 == setSecondNumber(t2, sender, "secondEncrypted")
    IN  setExists(t3, sender, TRUE)

\* slip: the caller's grant on the second pick is missing
purchaseTicketGrant_Missing(t, sender) ==
    LET t1 == allowThis(t, "updatedBalance")
        t2 == allow(t1, "updatedBalance", sender)
        t3 == allowThis(t2, "firstEncrypted")
        t4 == allowThis(t3, "secondEncrypted")
    IN  allow(t4, "firstEncrypted", sender)

purchaseTicketGrant(t, sender) ==
    LET t1 == allowThis(t, "updatedBalance")
        t2 == allow(t1, "updatedBalance", sender)
        t3 == allowThis(t2, "firstEncrypted")
        t4 == allowThis(t3, "secondEncrypted")
        t5 == allow(t4, "firstEncrypted", sender)
    IN  allow(t5, "secondEncrypted", sender)

\* the body of purchaseTicket, run on context t
purchaseTicketBody(t, sender, firstNumber, secondNumber, inputProof) ==
    purchaseTicketGrant(
        purchaseTicketStore(
            purchaseTicketAdmit(purchaseTicketDebit(t, sender),
                                sender, firstNumber, secondNumber, inputProof),
            sender),
        sender)

purchaseTicket(sender, firstNumber, secondNumber, inputProof) ==
    Commit(purchaseTicketBody(Begin, sender, firstNumber, secondNumber, inputProof),
           <<>>, "purchaseTicket", sender, inputProof)

(* playRound *)

\* slip: both winning numbers are taken from the first random byte
playRoundDraw_SameByte(t, sender, r1, r2) ==
    LET t1 == require(t, t.tickets[sender].exists, NoActiveTicket)
        t2 == asEuint8(t1, "baseOne", 1)
        t3 == asEuint8(t2, "zero", 0)
        t4 == randEuint8(t3, "randomFirst", r1)
        t5 == randEuint8(t4, "randomSecond", r2)
        t6 == FHErem8(t5, "rem", Local("randomFirst"), 9)
        t7 == FHEadd8(t6, "winningFirst", Local("rem"), Local("baseOne"))
        t8 == FHErem8(t7, "rem", Local("randomFirst"), 9)
    IN  FHEadd8(t8, "winningSecond", Local("rem"), Local("baseOne"))

\* variant: the random bytes are derived from the number of handles created
playRoundDraw_FromCounter(t, sender, r1, r2) ==
    LET t1 == require(t, t.tickets[sender].exists, NoActiveTicket)
        t2 == asEuint8(t1, "baseOne", 1)
        t3 == asEuint8(t2, "zero", 0)
        t4 == randEuint8(t3, "randomFirst", (r1 + Len(t.cipher)) % 256)
        t5 == randEuint8(t4, "randomSecond", (r2 + Len(t.cipher)) % 256)
        t6 == FHErem8(t5, "rem", Local("randomFirst"), 9)
        t7 == FHEadd8(t6, "winningFirst", Local("rem"), Local("baseOne"))
        t8 == FHErem8(t7, "rem", Local("randomSecond"), 9)
    IN  FHEadd8(t8, "winningSecond", Local("rem"), Local("baseOne"))

\* slip: no check that the caller holds an active ticket
playRoundDraw_NoRequire(t, sender, r1, r2) ==
    LET t2 == asEuint8(t, "baseOne", 1)
        t3 == asEuint8(t2, "zero", 0)
        t4 == randEuint8(t3, "randomFirst", r1)
        t5 == randEuint8(t4, "randomSecond", r2)
        t6 == FHErem8(t5, "rem", Local("randomFirst"), 9)
        t7 == FHEadd8(t6, "winningFirst", Local("rem"), Local("baseOne"))
        t8 == FHErem8(t7, "rem", Local("randomSecond"), 9)
    IN  FHEadd8(t8, "winningSecond", Local("rem"), Local("baseOne"))

playRoundDraw(t, sender, r1, r2) ==
    LET t1 == require(t, t.tickets[sender].exists, NoActiveTicket)
        t2 == asEuint8(t1, "baseOne", 1)
        t3 == asEuint8(t2, "zero", 0)
        t4 == randEuint8(t3, "randomFirst", r1)
        t5 == randEuint8(t4, "randomSecond", r2)
        t6 == FHErem8(t5, "rem", Local("randomFirst"), 9)
        t7 == FHEadd8(t6, "winningFirst", Local("rem"), Local("baseOne"))
        t8 == FHErem8(t7, "rem", Local("randomSecond"), 9)
    IN  FHEadd8(t8, "winningSecond", Local("rem"), Local("baseOne"))

\* slip: compares each pick with the other winning number
playRoundHits_Crossed(t, sender) ==
    LET t1 == FHEeq8(t, "eq", FirstNumberOf(sender), Local("winningSecond"))
        t2 == FHEselect(t1, "firstHit", Local("eq"), Local("baseOne"), Local("zero"))
        t3 == FHEeq8(t2, "eq", SecondNumberOf(sender), Local("winningFirst"))
        t4 == FHEselect(t3, "secondHit", Local("eq"), Local("baseOne"), Local("zero"))
    IN  FHEadd8(t4, "totalHits", Local("firstHit"), Local("secondHit"))

playRoundHits(t, sender) ==
    LET t1 == FHEeq8(t, "eq", FirstNumberOf(sender), Local("winningFirst"))
        t2 == FHEselect(t1, "firstHit", Local("eq"), Local("baseOne"), Local("zero"))
        t3 == FHEeq8(t2, "eq", SecondNumberOf(sender), Local("winningSecond"))
        t4 == FHEselect(t3, "secondHit", Local("eq"), Local("baseOne"), Local("zero"))
    IN  FHEadd8(t4, "totalHits", Local("firstHit"), Local("secondHit"))

\* slip: the two reward constants are exchanged
playRoundReward_Exchanged(t) ==
    LET t1 == asEuint32(t, "reward", 0)
        t2 == FHEeq8(t1, "eq", Local("totalHits"), Local("baseOne"))
        t3 == asEuint32(t2, "lit", TWO_MATCH_REWARD)
        t4 == FHEselect(t3, "reward", Local("eq"), Local("lit"), Local("reward"))
        t5 == asEuint8(t4, "lit", 2)
        t6 == FHEeq8(t5, "eq", Local("totalHits"), Local("lit"))
        t7 == asEuint32(t6, "lit", ONE_MATCH_REWARD)
    IN  FHEselect(t7, "reward", Local("eq"), Local("lit"), Local("reward"))

playRoundReward(t) ==
    LET t1 == asEuint32(t, "reward", 0)
        t2 == FHEeq8(t1, "eq", Local("totalHits"), Local("baseOne"))
        t3 == asEuint32(t2, "lit", ONE_MATCH_REWARD)
        t4 == FHEselect(t3, "reward", Local("eq"), Local("lit"), Local("reward"))
        t5 == asEuint8(t4, "lit", 2)
        t6 == FHEeq8(t5, "eq", Local("totalHits"), Local("lit"))
        t7 == asEuint32(t6, "lit", TWO_MATCH_REWARD)
    IN  FHEselect(t7, "reward", Local("eq"), Local("lit"), Local("reward"))

\* slip: the superseded balance handle loses its grants
playRoundCredit_RevokesOld(t, sender) ==
    LET t1 == FHEadd32(t, "updatedBalance", BalanceOf(sender), Local("reward"))
    IN  IF t1.err = "" /\ isInitialized(t.balances[sender])
        THEN [t1 EXCEPT !.acl[t.balances[sender]] = {}]
        ELSE t1

\* variant: a round without reward keeps the balance handle it found
playRoundCredit_KeepsOnNoReward(t, sender) ==
    IF t.err = "" /\ Plain(t, Local("reward")) = <<0, 0>>
          /\ isInitialized(t.balances[sender])
    THEN [t EXCEPT !.local["updatedBalance"] = t.balances[sender]]
    ELSE FHEadd32(t, "updatedBalance", BalanceOf(sender), Local("reward"))

\* slip: the reward replaces the balance instead of being added to it
playRoundCredit_Overwrites(t, sender) ==
    FHEadd32(asEuint32(t, "lit", 0), "updatedBalance", Local("lit"), Local("reward"))

playRoundCredit(t, sender) ==
    FHEadd32(t, "updatedBalance", BalanceOf(sender), Local("reward"))

\* slip: a round without reward deletes the balance instead of storing it
playRoundStore_DeletesBalance(t, sender) ==
    LET t1 == IF Plain(t, Local("reward")) = <<0, 0>>
              THEN [t EXCEPT !.balances[sender] = 0]
              ELSE setBalance(t, sender, "updatedBalance")
        t2 == setExists(t1, sender, FALSE)
    IN  setLastResult(t2, sender, "winningFirst", "winningSecond", "reward")

\* slip: the ticket stays active after the round
playRoundStore_KeepActive(t, sender) ==
    LET t1 == setBalance(t, sender, "updatedBalance")
    IN  setLastResult(t1, sender, "winningFirst", "winningSecond", "reward")

\* variant: the played ticket is deleted, picks included
playRoundStore_DeletesTicket(t, sender) ==
    LET t1 == setBalance(t, sender, "updatedBalance")
        t2 == [t1 EXCEPT !.tickets[sender] = NoTicket]
    IN  setLastResult(t2, sender, "winningFirst", "winningSecond", "reward")

\* variant: the draw result is written only while none is stored
playRoundStore_KeepsFirstDraw(t, sender) ==
    LET t1 == setBalance(t, sender, "updatedBalance")
        t2 == setExists(t1, sender, FALSE)
    IN  IF isInitialized(t.lastResults[sender].reward)
        THEN t2
        ELSE setLastResult(t2, sender, "winningFirst", "winningSecond", "reward")

playRoundStore(t, sender) ==
    LET t1 == setBalance(t, sender, "updatedBalance")
        t2 == setExists(t1, sender, FALSE)
    IN  setLastResult(t2, sender, "winningFirst", "winningSecond", "reward")

playRoundGrant(t, sender) ==
    LET t1 == allowThis(t, "updatedBalance")
        t2 == allow(t1, "updatedBalance", sender)
        t3 == allowThis(t2, "winningFirst")
        t4 == allowThis(t3, "winningSecond")
        t5 == allowThis(t4, "reward")
        t6 == allow(t5, "winningFirst", sender)
        t7 == allow(t6, "winningSecond", sender)
    IN  allow(t7, "reward", sender)

\* the body of playRound, run on context t
playRoundBody(t, sender, r1, r2) ==
    playRoundGrant(
        playRoundStore(
            playRoundCredit(
                playRoundReward(
                    playRoundHits(playRoundDraw(t, sender, r1, r2), sender)),
                sender),
            sender),
        sender)

playRound(sender, r1, r2) ==
    Commit(playRoundBody(Begin, sender, r1, r2),
           <<"winningFirst", "winningSecond", "reward">>, "playRound", sender,
           [r1 |-> r1, r2 |-> r2])

(* Views.  A view call reads storage on behalf of caller; it is recorded in  *)
(* last like a transaction and writes nothing.                             *)

View(op, caller, player, result) ==
    /\ nOps' = nOps + 1
    /\ last' = [op |-> op, sender |-> caller, status |-> "ok",
                input |-> [player |-> player], prev |-> Snapshot(caller),
                ret |-> result, local |-> [n \in Locals |-> 0], log |-> <<>>]
    /\ UNCHANGED <<balances, tickets, lastResults, cipher, acl, progress, ledger>>

\* a view call that reverts
ViewReverted(op, caller, player, reason) ==
    /\ nOps' = nOps + 1
    /\ last' = [op |-> op, sender |-> caller, status |-> reason,
                input |-> [player |-> player], prev |-> Snapshot(caller),
                ret |-> <<>>, local |-> [n \in Locals |-> 0], log |-> <<>>]
    /\ UNCHANGED <<balances, tickets, lastResults, cipher, acl, progress, ledger>>

GetEncryptedBalance(caller, player) ==
    View("getEncryptedBalance", caller, player, <<getEncryptedBalance(player)>>)

\* variant: only the owner may read its ticket
GetTicket_OwnerOnly(caller, player) ==
    IF caller = player
    THEN View("getTicket", caller, player, getTicket(player))
    ELSE ViewReverted("getTicket", caller, player, Unauthorized)

GetTicket(caller, player) ==
    View("getTicket", caller, player, getTicket(player))

GetLastDraw(caller, player) ==
    View("getLastDraw", caller, player, getLastDraw(player))

-----------------------------------------------------------------------------
(* The web client: the React state of TrustRollApp for one connected       *)
(* wallet, and the invocations of its asynchronous handlers that are in    *)
(* flight.  A string the client shows is the sequence of its decimal       *)
(* digits; null is a value of its own.  running holds, per handler, the    *)
(* invocations in flight (where each stands, what it captured);            *)
(* decrypting holds the handles of the decrypt requests in flight.  The    *)
(* wallet stays connected and the encryption instance is ready.            *)

\* the connected wallet (useAccount().address)
Address == "alice"

ZERO_HANDLE == 0

\* null, for a handle and for a string
NullHandle == -1
NullString == <<-1>>

\* the handlers guarded by a busy flag, and the effect run on mount
Handlers ==
    {"handlePurchasePoints", "handlePurchaseTicket", "handlePlayRound",
     "refreshAccountData"}

\* the component as first rendered for a connected wallet: every useState
\* at its initial value, the mount effect's refreshAccountData in flight
Mounted ==
    [balanceHandle |-> NullHandle,
     balancePlain |-> NullString,
     ticketCipher |-> [first |-> NullHandle, second |-> NullHandle, exists |-> FALSE],
     ticketPlain |-> <<NullString, NullString>>,
     drawCipher |-> [first |-> NullHandle, second |-> NullHandle, reward |-> NullHandle],
     drawPlain |-> <<NullString, NullString, NullString>>,
     isPurchasing |-> FALSE,
     isBuyingTicket |-> FALSE,
     isDrawing |-> FALSE,
     status |-> "",
     running |-> [h \in Handlers |->
                    IF h = "refreshAccountData" THEN <<[pc |-> "read", arg |-> <<>>]>>
                    ELSE <<>>],
     decrypting |-> [balance |-> {}, ticket |-> {}, draw |-> {}]]

Init ==
    /\ ui = Mounted
    /\ balances = [p \in Players |-> 0]
    /\ tickets = [p \in Players |-> NoTicket]
    /\ lastResults = [p \in Players |-> NoDraw]
    /\ cipher = <<>>
    /\ acl = <<>>
    /\ last = [op |-> "deploy", sender |-> Contract, status |-> "ok",
               input |-> <<>>, prev |-> <<>>, ret |-> <<>>,
               local |-> [n \in Locals |-> 0], log |-> <<>>]
    /\ nOps = 0
    /\ progress = [p \in Players |-> 0]
    /\ ledger = [p \in Players |-> NoEntries]

\* a client encrypts picks under a proof bound to (target, user) and submits
\* the two ciphertexts of the batch in order
PurchaseTicket(sender, picks, target, user) ==
    purchaseTicket(sender, 1, 2, [values |-> picks, target |-> target, user |-> user])

Next ==
    \/ \E sender \in Players, value \in EthAmounts :
            nOps < MaxOps /\ purchasePoints(sender, value) /\ UNCHANGED ui
    \/ \E sender \in Players :
          \E enc \in TicketInputs(sender) :
            nOps < MaxOps /\ PurchaseTicket(sender, enc[1], enc[2][1], enc[2][2])
                          /\ UNCHANGED ui
    \/ \E sender \in Players, r1 \in RandBytes, r2 \in RandBytes :
            nOps < MaxOps /\ playRound(sender, r1, r2) /\ UNCHANGED ui
    \/ \E caller \in Players, player \in Players :
            nOps < MaxOps /\ GetEncryptedBalance(caller, player) /\ UNCHANGED ui
    \/ \E caller \in Players, player \in Players :
            nOps < MaxOps /\ GetTicket(caller, player) /\ UNCHANGED ui
    \/ \E caller \in Players, player \in Players :
            nOps < MaxOps /\ GetLastDraw(caller, player) /\ UNCHANGED ui

Spec == Init /\ [][Next]_vars

-----------------------------------------------------------------------------
(* The web client's code *)

\* the decimal digits of base-100 digits a, most significant first
RECURSIVE Decimals(_)
Decimals(a) ==
    IF a = <<>> THEN <<>> ELSE Decimals(Tail(a)) \o <<a[1] \div 10, a[1] % 10>>

\* BigInt.prototype.toString of the value of a limb pair
toString(v) ==
    LET d == Decimals(MulSmall(Digits(v[1]), W16, v[2]))
    IN  IF d = <<>> THEN <<0>> ELSE IF d[1] = 0 THEN Tail(d) ELSE d

\* a bigint in a condition: 0n is false
Truthy(v) == v # <<0, 0>>

\* the texts of the ETH amount field, as <<digits, number of decimals>>:
\* "0.001", "0", "0.0000000000000000001", and the empty text <<>>
EthTexts == {<<1, 3>>, <<0, 0>>, <<1, 19>>, <<>>}

\* parseEther: the amount in wei, or an exception for more than 18 decimals
parseEther(text) ==
    IF text[2] > 18 THEN [threw |-> TRUE, wei |-> <<>>]
    ELSE [threw |-> FALSE,
          wei |-> IF (18 - text[2]) % 2 = 0
                  THEN Wei(text[1], (18 - text[2]) \div 2)
                  ELSE Wei(text[1] * 10, (17 - text[2]) \div 2)]

\* the picks the two selects offer (1..9 each); the ones tried here
PickChoices == {<<1, 2>>}

\* the random bytes of the draws tried from the client: (1, 2) and (2, 1)
DrawBytes == {<<9, 253>>, <<253, 9>>}

Flag(h) ==
    CASE h = "handlePurchasePoints" -> "isPurchasing"
      [] h = "handlePurchaseTicket" -> "isBuyingTicket"
      [] h = "handlePlayRound" -> "isDrawing"

SuccessText(h) ==
    CASE h = "handlePurchasePoints" -> "Encrypted points added to your balance."
      [] h = "handlePurchaseTicket" -> "Ticket purchased. Ready for the draw."
      [] h = "handlePlayRound" -> "Draw complete. Decrypt to see results."

FailureText(h) ==
    CASE h = "handlePurchasePoints" -> "Could not purchase points. Check funds and network."
      [] h = "handlePurchaseTicket" ->
           "Ticket purchase failed. Ensure you have at least 10 points."
      [] h = "handlePlayRound" -> "Draw failed. Check that a ticket is active."

Remove(seq, i) == SubSeq(seq, 1, i - 1) \o SubSeq(seq, i + 1, Len(seq))

\* the reads; ok is whether the RPC read returned (a failed read is logged
\* and changes nothing)
fetchBalance(u, ok) ==
    IF ok
    THEN [u EXCEPT !.balanceHandle = getEncryptedBalance(Address),
                   !.balancePlain = NullString]
    ELSE u

fetchTicket(u, ok) ==
    IF ok
    THEN [u EXCEPT !.ticketCipher = [first |-> getTicket(Address)[1],
                                     second |-> getTicket(Address)[2],
                                     exists |-> getTicket(Address)[3]],
                   !.ticketPlain = <<NullString, NullString>>]
    ELSE u

fetchLastDraw(u, ok) ==
    IF ok
    THEN [u EXCEPT !.drawCipher = [first |-> getLastDraw(Address)[1],
                                   second |-> getLastDraw(Address)[2],
                                   reward |-> getLastDraw(Address)[3]],
                   !.drawPlain = <<NullString, NullString, NullString>>]
    ELSE u

refreshAccountData(u, ok) == fetchLastDraw(fetchTicket(fetchBalance(u, ok), ok), ok)

hasTicket(u) ==
    /\ u.ticketCipher.exists
    /\ u.ticketCipher.first # ZERO_HANDLE
    /\ u.ticketCipher.second # ZERO_HANDLE

hasDraw(u) ==
    \A h \in {u.drawCipher.first, u.drawCipher.second, u.drawCipher.reward} :
        h # NullHandle /\ h # ZERO_HANDLE

\* the contract and the engine are as before the step
ChainUnchanged ==
    UNCHANGED <<balances, tickets, lastResults, cipher, acl, last, nOps, progress,
                ledger>>

\* catch and finally of handler h for its invocation i
Caught(u, h, i) ==
    [u EXCEPT !.status = FailureText(h), ![Flag(h)] = FALSE,
              !.running[h] = Remove(@, i)]

\* the end of the try block and finally of handler h for its invocation i
Completed(u, h, i) ==
    [u EXCEPT !.status = SuccessText(h), ![Flag(h)] = FALSE,
              !.running[h] = Remove(@, i)]

\* the transaction of invocation i of handler h was mined
Mined(u, h, i, status) ==
    IF status = "ok"
    THEN [u EXCEPT !.running[h][i].pc = "read"]
    ELSE Caught(u, h, i)

(* useEffect on mount: refreshAccountData *)

MountRefresh(ok) ==
    /\ ui.running["refreshAccountData"] # <<>>
    /\ ui' = [refreshAccountData(ui, ok) EXCEPT
                 !.running["refreshAccountData"] = <<>>]
    /\ ChainUnchanged

(* handlePurchasePoints *)

\* slip: the busy flag is not raised
handlePurchasePoints_FlagNotRaised(u, text) ==
    LET value == parseEther(IF text = <<>> THEN <<0, 0>> ELSE text)
    IN  IF value.threw
        THEN [u EXCEPT !.status = FailureText("handlePurchasePoints"),
                       !.isPurchasing = FALSE]
        ELSE [u EXCEPT !.status = "Waiting for confirmation...",
                       !.running["handlePurchasePoints"] =
                           Append(@, [pc |-> "tx", arg |-> value.wei])]

\* up to the first await: parse the amount, raise the flag
handlePurchasePoints(u, text) ==
    LET value == parseEther(IF text = <<>> THEN <<0, 0>> ELSE text)
    IN  IF value.threw
        THEN [u EXCEPT !.status = FailureText("handlePurchasePoints"),
                       !.isPurchasing = FALSE]
        ELSE [u EXCEPT !.isPurchasing = TRUE,
                       !.status = "Waiting for confirmation...",
                       !.running["handlePurchasePoints"] =
                           Append(@, [pc |-> "tx", arg |-> value.wei])]

\* the Mint button, enabled while connected and not purchasing
ClickMint(text) ==
    /\ ~ui.isPurchasing
    /\ ui' = handlePurchasePoints(ui, text)
    /\ ChainUnchanged

MintMined(i) ==
    /\ ui.running["handlePurchasePoints"][i].pc = "tx"
    /\ nOps < MaxOps
    /\ purchasePoints(Address, ui.running["handlePurchasePoints"][i].arg)
    /\ ui' = Mined(ui, "handlePurchasePoints", i, last'.status)

MintRead(i, ok) ==
    /\ ui.running["handlePurchasePoints"][i].pc = "read"
    /\ ui' = Completed(fetchBalance(ui, ok), "handlePurchasePoints", i)
    /\ ChainUnchanged

(* handlePurchaseTicket *)

handlePurchaseTicket(u, picks) ==
    IF ~(\A n \in {picks[1], picks[2]} : n >= 1 /\ n <= 9)
    THEN [u EXCEPT !.status = "Numbers must be between 1 and 9."]
    ELSE [u EXCEPT !.isBuyingTicket = TRUE,
                   !.status = "Encrypting your numbers...",
                   !.running["handlePurchaseTicket"] =
                       Append(@, [pc |-> "tx", arg |-> picks])]

\* the Buy ticket button, enabled while not buying
ClickBuy(picks) ==
    /\ ~ui.isBuyingTicket
    /\ ui' = handlePurchaseTicket(ui, picks)
    /\ ChainUnchanged

\* the picks are encrypted for (this contract, the connected address)
BuyMined(i) ==
    /\ ui.running["handlePurchaseTicket"][i].pc = "tx"
    /\ nOps < MaxOps
    /\ PurchaseTicket(Address, ui.running["handlePurchaseTicket"][i].arg,
                      Contract, Address)
    /\ ui' = Mined(ui, "handlePurchaseTicket", i, last'.status)

BuyRead(i, ok) ==
    /\ ui.running["handlePurchaseTicket"][i].pc = "read"
    /\ ui' = Completed(refreshAccountData(ui, ok), "handlePurchaseTicket", i)
    /\ ChainUnchanged

(* handlePlayRound *)

handlePlayRound(u) ==
    IF ~u.ticketCipher.exists
    THEN [u EXCEPT !.status = "Buy a ticket before starting a draw."]
    ELSE [u EXCEPT !.isDrawing = TRUE,
                   !.status = "Calling the Zama coprocessor for random numbers...",
                   !.running["handlePlayRound"] = Append(@, [pc |-> "tx", arg |-> <<>>])]

\* the Start draw button, enabled while not drawing and a ticket is shown
ClickDraw ==
    /\ ~ui.isDrawing /\ hasTicket(ui)
    /\ ui' = handlePlayRound(ui)
    /\ ChainUnchanged

DrawMined(i, r1, r2) ==
    /\ ui.running["handlePlayRound"][i].pc = "tx"
    /\ nOps < MaxOps
    /\ playRound(Address, r1, r2)
    /\ ui' = Mined(ui, "handlePlayRound", i, last'.status)

DrawRead(i, ok) ==
    /\ ui.running["handlePlayRound"][i].pc = "read"
    /\ ui' = Completed(fetchLastDraw(fetchBalance(ui, ok), ok), "handlePlayRound", i)
    /\ ChainUnchanged

\* the wallet or the network refuses the transaction of invocation i of h
Rejected(h, i) ==
    /\ ui.running[h][i].pc = "tx"
    /\ ui' = Caught(ui, h, i)
    /\ ChainUnchanged

(* decryption *)

\* decryptHandles: the plaintexts of the handles for the connected address,
\* or an exception if the relayer refuses one of them
decryptHandles(handles) ==
    IF \A i \in DOMAIN handles : userDecrypt(handles[i], Address).status = "ok"
    THEN [threw |-> FALSE,
          values |-> [i \in DOMAIN handles |-> userDecrypt(handles[i], Address).v]]
    ELSE [threw |-> TRUE, values |-> <<>>]

\* the Decrypt balance button: the handle shown is captured
ClickDecryptBalance ==
    /\ ui.balanceHandle # NullHandle /\ ui.balanceHandle # ZERO_HANDLE
    /\ ui' = [ui EXCEPT !.decrypting.balance = @ \cup {<<ui.balanceHandle>>}]
    /\ ChainUnchanged

\* what handleDecryptBalance stores for the decrypted value
BalanceText(value) == IF Truthy(value) THEN toString(value) ELSE NullString

\* the decrypt request for handles returns; up is whether the relayer answered
DecryptBalanceDone(handles, up) ==
    /\ handles \in ui.decrypting.balance
    /\ LET result == decryptHandles(handles)
       IN  ui' = IF up /\ ~result.threw
                 THEN [ui EXCEPT !.balancePlain = BalanceText(result.values[1]),
                                 !.decrypting.balance = @ \ {handles}]
                 ELSE [ui EXCEPT !.status = "Could not decrypt balance. Please retry.",
                                 !.decrypting.balance = @ \ {handles}]
    /\ ChainUnchanged

\* the Decrypt ticket button, enabled while a ticket is shown
ClickDecryptTicket ==
    /\ hasTicket(ui)
    /\ ui.ticketCipher.first # NullHandle /\ ui.ticketCipher.second # NullHandle
    /\ ui' = [ui EXCEPT !.decrypting.ticket =
                            @ \cup {<<ui.ticketCipher.first, ui.ticketCipher.second>>}]
    /\ ChainUnchanged

DecryptTicketDone(handles, up) ==
    /\ handles \in ui.decrypting.ticket
    /\ LET result == decryptHandles(handles)
       IN  ui' = IF up /\ ~result.threw
                 THEN [ui EXCEPT !.ticketPlain = <<toString(result.values[1]),
                                                   toString(result.values[2])>>,
                                 !.decrypting.ticket = @ \ {handles}]
                 ELSE [ui EXCEPT !.status = "Could not decrypt ticket numbers.",
                                 !.decrypting.ticket = @ \ {handles}]
    /\ ChainUnchanged

\* the Decrypt result button, enabled while a draw is shown
ClickDecryptDraw ==
    /\ hasDraw(ui)
    /\ ui' = [ui EXCEPT !.decrypting.draw =
                            @ \cup {<<ui.drawCipher.first, ui.drawCipher.second,
                                      ui.drawCipher.reward>>}]
    /\ ChainUnchanged

DecryptDrawDone(handles, up) ==
    /\ handles \in ui.decrypting.draw
    /\ LET result == decryptHandles(handles)
       IN  ui' = IF up /\ ~result.threw
                 THEN [ui EXCEPT !.drawPlain = <<toString(result.values[1]),
                                                 toString(result.values[2]),
                                                 toString(result.values[3])>>,
                                 !.decrypting.draw = @ \ {handles}]
                 ELSE [ui EXCEPT !.status = "Could not decrypt draw result.",
                                 !.decrypting.draw = @ \ {handles}]
    /\ ChainUnchanged

\* the three handlers with a busy flag
Flagged == {"handlePurchasePoints", "handlePurchaseTicket", "handlePlayRound"}

\* the number of invocations in flight
Pending ==
    Len(ui.running["handlePurchasePoints"]) + Len(ui.running["handlePurchaseTicket"])
        + Len(ui.running["handlePlayRound"]) + Len(ui.running["refreshAccountData"])
        + Cardinality(ui.decrypting.balance) + Cardinality(ui.decrypting.ticket)
        + Cardinality(ui.decrypting.draw)

\* the pending await of an invocation of handlePurchasePoints settles
MintSettles ==
    \/ \E i \in DOMAIN ui.running["handlePurchasePoints"] :
          Rejected("handlePurchasePoints", i)
    \/ \E i \in DOMAIN ui.running["handlePurchasePoints"], ok \in BOOLEAN : MintRead(i, ok)
    \/ \E i \in DOMAIN ui.running["handlePurchasePoints"] : MintMined(i)

\* the pending await of an invocation of handlePurchaseTicket settles
BuySettles ==
    \/ \E i \in DOMAIN ui.running["handlePurchaseTicket"] :
          Rejected("handlePurchaseTicket", i)
    \/ \E i \in DOMAIN ui.running["handlePurchaseTicket"], ok \in BOOLEAN : BuyRead(i, ok)
    \/ \E i \in DOMAIN ui.running["handlePurchaseTicket"] : BuyMined(i)

\* the pending await of an invocation of handlePlayRound settles
DrawSettles ==
    \/ \E i \in DOMAIN ui.running["handlePlayRound"] : Rejected("handlePlayRound", i)
    \/ \E i \in DOMAIN ui.running["handlePlayRound"], ok \in BOOLEAN : DrawRead(i, ok)
    \/ \E i \in DOMAIN ui.running["handlePlayRound"] :
          \E draw \in DrawBytes : DrawMined(i, draw[1], draw[2])

\* a decrypt request returns
DecryptSettles ==
    \/ \E handles \in ui.decrypting.balance, up \in BOOLEAN :
          DecryptBalanceDone(handles, up)
    \/ \E handles \in ui.decrypting.ticket, up \in BOOLEAN :
          DecryptTicketDone(handles, up)
    \/ \E handles \in ui.decrypting.draw, up \in BOOLEAN :
          DecryptDrawDone(handles, up)

\* the user presses one of the three transaction buttons
TxClicks ==
    \/ \E text \in EthTexts : Pending < MaxPending /\ ClickMint(text)
    \/ \E picks \in PickChoices : Pending < MaxPending /\ ClickBuy(picks)
    \/ Pending < MaxPending /\ ClickDraw

\* the user presses one of the three decrypt buttons
DecryptClicks ==
    \/ Pending < MaxPending /\ ClickDecryptBalance
    \/ Pending < MaxPending /\ ClickDecryptTicket
    \/ Pending < MaxPending /\ ClickDecryptDraw

\* the client with every button in use
UINext ==
    \/ \E ok \in BOOLEAN : MountRefresh(ok)
    \/ MintSettles
    \/ BuySettles
    \/ DrawSettles
    \/ DecryptSettles
    \/ TxClicks
    \/ DecryptClicks

UISpec == Init /\ [][UINext]_vars

\* the client with the three transaction buttons in use
BusyNext ==
    \/ \E ok \in BOOLEAN : MountRefresh(ok)
    \/ MintSettles
    \/ BuySettles
    \/ DrawSettles
    \/ TxClicks

\* every await of a handler settles: the wallet answers, the transaction
\* is mined or refused, the read returns or fails
BusySpec ==
    /\ Init /\ [][BusyNext]_vars
    /\ WF_vars(MintSettles) /\ WF_vars(BuySettles) /\ WF_vars(DrawSettles)

-----------------------------------------------------------------------------
(* Vocabulary of the properties *)

\* the plaintext behind a handle, an empty slot counting as zero
Dec(h) == IF h = 0 THEN <<0, 0>> ELSE cipher[h].v

\* the non-sentinel handles stored in a player's account
StoredHandles(p) ==
    {balances[p], tickets[p].firstNumber, tickets[p].secondNumber,
     lastResults[p].firstWinning, lastResults[p].secondWinning,
     lastResults[p].reward} \ {0}

\* the last transaction was op and it succeeded
Done(op) == last.op = op /\ last.status = "ok"

\* storage, handle store and grants are as before the step
StateUnchanged == UNCHANGED <<balances, tickets, lastResults, cipher, acl>>

\* the digit sequence of a limb pair
ToDigits(x) == MulSmall(Digits(x[1]), W16, x[2])

\* the amount d is below 2^32
FitsIn32(d) == ToDigits(ToUint32(d)) = d

\* c = a + b over the naturals, for limb pairs
ExactSum(a, b, c) ==
    LET lo == a[2] + b[2]
        hi == a[1] + b[1] + (lo \div W16)
    IN  hi < W16 /\ c = <<hi, lo % W16>>

\* a < b, for limb pairs
Less32(a, b) == a[1] < b[1] \/ (a[1] = b[1] /\ a[2] < b[2])

\* the input proof is bound to (this contract, sender)
BoundTo(proof, sender) == proof.target = Contract /\ proof.user = sender

-----------------------------------------------------------------------------
(* Properties *)

\* C1: every non-sentinel handle stored in a player's account carries a
\* grant to the contract itself and a grant to that player.
C1_StoredHandlesGranted ==
    \A p \in Players : \A h \in StoredHandles(p) :
        h \in DOMAIN acl /\ Contract \in acl[h] /\ p \in acl[h]

\* a round was played: all six slots of the caller hold handles
C1_Witness ==
    Done("playRound") /\ Cardinality(StoredHandles(last.sender)) = 6

\* C2: the holders of a grant on a handle stored in P's account are among
\* the contract and P, and a decrypt request by another player is answered
\* Unauthorized.
C2_OnlyOwnerDecrypts ==
    \A p \in Players : \A h \in StoredHandles(p) :
        /\ acl[h] \subseteq {Contract, p}
        /\ \A q \in Players \ {p} : userDecrypt(h, q).status = Unauthorized

\* both players hold a balance and a ticket, and each can decrypt its own
C2_Witness ==
    \A p \in Players :
        /\ balances[p] # 0 /\ tickets[p].firstNumber # 0
        /\ userDecrypt(balances[p], p).status = "ok"

\* C3 as stated: a successful purchasePoints(v) makes the balance larger by
\* exactly floor(v * 10000 / UNIT).
C3_ExactIncrease ==
    Done("purchasePoints") =>
        /\ FitsIn32(FloorPoints(last.input.value))
        /\ ExactSum(Dec(last.prev.balance), ToUint32(FloorPoints(last.input.value)),
                    Dec(balances[last.sender]))

\* C3 amended: after a successful purchasePoints(v) the balance is the prior
\* balance plus floor(v * 10000 / UNIT), modulo 2^32.
C3_IncreaseMod32 ==
    Done("purchasePoints") =>
        Sub32(Dec(balances[last.sender]), Dec(last.prev.balance))
            = ToUint32(FloorPoints(last.input.value))

\* a purchase on an existing balance whose sum passed 2^32
C3_Witness ==
    /\ Done("purchasePoints") /\ last.prev.balance # 0
    /\ Less32(Dec(balances[last.sender]), Dec(last.prev.balance))

\* C4: purchasePoints with no payment fails with ZeroPayment, with a payment
\* worth less than one point it fails with BelowMinimum, and in both cases
\* storage, handles and grants are unchanged.
C4_RejectedPurchase ==
    [][last'.op = "purchasePoints" =>
         /\ last'.input.value = <<>> =>
                last'.status = ZeroPayment /\ StateUnchanged
         /\ (last'.input.value # <<>> /\ FloorPoints(last'.input.value) = <<>>) =>
                last'.status = BelowMinimum /\ StateUnchanged]_vars

\* a payment below the minimum by a player holding a balance and a ticket
C4_Witness ==
    /\ last.op = "purchasePoints" /\ last.status = BelowMinimum
    /\ balances[last.sender] # 0 /\ tickets[last.sender].exists

\* C5 as stated: purchaseTicket with picks in 1..9 makes the balance smaller
\* by exactly 10 and getTicket reports the picks, active.
C5_ExactDebit ==
    (Done("purchaseTicket") /\ \A i \in 1..2 : last.input.values[i] \in 1..9) =>
        /\ ExactSum(Dec(balances[last.sender]), U32(10), Dec(last.prev.balance))
        /\ \A i \in 1..2 :
               userDecrypt(getTicket(last.sender)[i], last.sender)
                   = [status |-> "ok", v |-> <<0, last.input.values[i]>>]
        /\ getTicket(last.sender)[3] = TRUE

\* C5 amended: purchaseTicket with picks in 1..9 leaves the balance at the
\* prior balance minus 10 modulo 2^32, and getTicket reports the picks, active.
C5_DebitMod32 ==
    (Done("purchaseTicket") /\ \A i \in 1..2 : last.input.values[i] \in 1..9) =>
        /\ Add32(Dec(balances[last.sender]), U32(10)) = Dec(last.prev.balance)
        /\ \A i \in 1..2 :
               userDecrypt(getTicket(last.sender)[i], last.sender)
                   = [status |-> "ok", v |-> <<0, last.input.values[i]>>]
        /\ getTicket(last.sender)[3] = TRUE

\* a ticket with valid, different picks bought on a balance of less than 10
C5_Witness ==
    /\ Done("purchaseTicket") /\ last.input.values = <<1, 2>>
    /\ last.prev.balance # 0 /\ Less32(Dec(last.prev.balance), U32(10))

\* C6 as stated: after playRound the reward is 0, 100 or 1000, the balance
\* is the prior balance plus the reward exactly, the ticket is inactive.
C6_ExactCredit ==
    Done("playRound") =>
        /\ Dec(lastResults[last.sender].reward) \in {U32(0), U32(100), U32(1000)}
        /\ ExactSum(Dec(last.prev.balance), Dec(lastResults[last.sender].reward),
                    Dec(balances[last.sender]))
        /\ ~tickets[last.sender].exists

\* C6 amended: after playRound the reward is 0, 100 or 1000, the balance is
\* the prior balance plus the reward modulo 2^32, the ticket is inactive.
C6_CreditMod32 ==
    Done("playRound") =>
        /\ Dec(lastResults[last.sender].reward) \in {U32(0), U32(100), U32(1000)}
        /\ Sub32(Dec(balances[last.sender]), Dec(last.prev.balance))
               = Dec(lastResults[last.sender].reward)
        /\ ~tickets[last.sender].exists

\* a winning round whose credit passed 2^32
C6_Witness ==
    /\ Done("playRound") /\ Dec(lastResults[last.sender].reward) # U32(0)
    /\ Less32(Dec(balances[last.sender]), Dec(last.prev.balance))

\* C7: in playRound the hit count is the number of positions at which the
\* pick equals the winning number, and the reward is 0, 100 or 1000 for
\* 0, 1 or 2 hits.
C7_PositionalReward ==
    Done("playRound") =>
        LET p1 == Dec(last.prev.ticket.firstNumber)[2]
            p2 == Dec(last.prev.ticket.secondNumber)[2]
            w1 == Dec(lastResults[last.sender].firstWinning)[2]
            w2 == Dec(lastResults[last.sender].secondWinning)[2]
            h == (IF p1 = w1 THEN 1 ELSE 0) + (IF p2 = w2 THEN 1 ELSE 0)
        IN  /\ Dec(last.local["totalHits"]) = <<0, h>>
            /\ Dec(lastResults[last.sender].reward)
                   = U32(CASE h = 0 -> 0 [] h = 1 -> 100 [] h = 2 -> 1000)

\* both picks were drawn, each at the other position: no hit, no reward
C7_Witness ==
    /\ Done("playRound")
    /\ Dec(last.prev.ticket.firstNumber) = Dec(lastResults[last.sender].secondWinning)
    /\ Dec(last.prev.ticket.secondNumber) = Dec(lastResults[last.sender].firstWinning)
    /\ Dec(last.prev.ticket.firstNumber) # Dec(last.prev.ticket.secondNumber)
    /\ Dec(lastResults[last.sender].reward) = U32(0)

\* C8: playRound by a player without an active ticket fails with
\* NoActiveTicket and leaves storage, handles and grants unchanged.
C8_NoActiveTicket ==
    [][(last'.op = "playRound" /\ ~tickets[last'.sender].exists) =>
           last'.status = NoActiveTicket /\ StateUnchanged]_vars

\* a second playRound on a ticket that was already played
C8_Witness ==
    /\ last.op = "playRound" /\ last.status = NoActiveTicket
    /\ last.prev.ticket.firstNumber # 0 /\ last.prev.draw.reward # 0

\* C9: purchaseTicket with a proof not bound to (this contract, caller)
\* fails with InvalidProof and leaves storage, handles and grants unchanged.
C9_InvalidProof ==
    [][(last'.op = "purchaseTicket" /\ ~BoundTo(last'.input, last'.sender)) =>
           last'.status = InvalidProof /\ StateUnchanged]_vars

\* a proof with target and submitter swapped, by a player holding a balance
C9_Witness ==
    /\ last.op = "purchaseTicket" /\ last.status = InvalidProof
    /\ last.input.target = last.sender /\ last.input.user = Contract
    /\ balances[last.sender] # 0

\* C10: purchaseTicket with a valid proof succeeds whatever the prior
\* balance b, and leaves the balance at (b - 10) mod 2^32.
C10_NoAffordabilityCheck ==
    (last.op = "purchaseTicket" /\ BoundTo(last.input, last.sender)) =>
        /\ last.status = "ok"
        /\ Dec(balances[last.sender]) = Sub32(Dec(last.prev.balance), U32(10))

\* a ticket bought on an empty account: the balance is 2^32 - 10
C10_Witness ==
    /\ Done("purchaseTicket") /\ last.prev.balance = 0
    /\ Dec(balances[last.sender]) = <<65535, 65526>>

\* C11: from a fresh account, purchasePoints with 1 ether gives the
\* owner-decrypted balance 10000; then purchaseTicket with picks (1, 2)
\* gives 9990 and an active ticket; then a playRound drawing (1, 2) gives
\* reward 1000, balance 10990 and an inactive ticket.
C11_EndToEnd ==
    \A p \in Players :
        /\ progress[p] = 1 =>
               userDecrypt(getEncryptedBalance(p), p) = [status |-> "ok", v |-> U32(10000)]
        /\ progress[p] = 2 =>
               /\ userDecrypt(getEncryptedBalance(p), p)
                      = [status |-> "ok", v |-> U32(9990)]
               /\ userDecrypt(getTicket(p)[1], p) = [status |-> "ok", v |-> <<0, 1>>]
               /\ userDecrypt(getTicket(p)[2], p) = [status |-> "ok", v |-> <<0, 2>>]
               /\ getTicket(p)[3] = TRUE
        /\ progress[p] = 3 =>
               /\ userDecrypt(getLastDraw(p)[3], p) = [status |-> "ok", v |-> U32(1000)]
               /\ userDecrypt(getEncryptedBalance(p), p)
                      = [status |-> "ok", v |-> U32(10990)]
               /\ getTicket(p)[3] = FALSE

\* a player has gone through the whole scenario
C11_Witness == \E p \in Players : progress[p] = 3

\* C12: in every reachable state both decrypted picks of every stored
\* ticket lie in 1..9.
C12_PicksInRange ==
    \A p \in Players :
        /\ isInitialized(tickets[p].firstNumber) => Dec(tickets[p].firstNumber)[2] \in 1..9
        /\ isInitialized(tickets[p].secondNumber) => Dec(tickets[p].secondNumber)[2] \in 1..9

\* C13: a player has one ticket slot; purchaseTicket with a valid proof while
\* a ticket is active succeeds, stores the new picks in place of the old,
\* keeps the ticket active and debits the cost again.
C13_ActiveTicketOverwritten ==
    (last.op = "purchaseTicket" /\ BoundTo(last.input, last.sender)
        /\ last.prev.ticket.exists) =>
        /\ last.status = "ok"
        /\ tickets[last.sender].firstNumber = last.local["firstEncrypted"]
        /\ tickets[last.sender].secondNumber = last.local["secondEncrypted"]
        /\ tickets[last.sender].firstNumber # last.prev.ticket.firstNumber
        /\ tickets[last.sender].secondNumber # last.prev.ticket.secondNumber
        /\ Dec(tickets[last.sender].firstNumber) = <<0, last.input.values[1]>>
        /\ Dec(tickets[last.sender].secondNumber) = <<0, last.input.values[2]>>
        /\ tickets[last.sender].exists
        /\ Dec(balances[last.sender])
               = Sub32(Dec(last.prev.balance), U32(TICKET_COST))

\* an active ticket was replaced by one with other picks
C13_Witness ==
    /\ Done("purchaseTicket") /\ last.prev.ticket.exists
    /\ Dec(last.prev.ticket.firstNumber) # Dec(tickets[last.sender].firstNumber)
    /\ Dec(last.prev.ticket.secondNumber) # Dec(tickets[last.sender].secondNumber)

\* C14 as stated: a balance leaves the sentinel only through the player's own
\* successful purchasePoints, and a non-sentinel balance never becomes the
\* sentinel again.
C14_OnlyPurchasePointsCreates ==
    [][\A p \in Players :
           /\ (~isInitialized(balances[p]) /\ isInitialized(balances'[p])) =>
                  /\ last'.op = "purchasePoints"
                  /\ last'.sender = p /\ last'.status = "ok"
           /\ isInitialized(balances[p]) => isInitialized(balances'[p])]_vars

\* C14 amended: a balance leaves the sentinel only through the player's own
\* first successful purchasePoints or purchaseTicket, and a non-sentinel
\* balance never becomes the sentinel again.
C14_OwnPurchaseCreates ==
    [][\A p \in Players :
           /\ (~isInitialized(balances[p]) /\ isInitialized(balances'[p])) =>
                  /\ last'.op \in {"purchasePoints", "purchaseTicket"}
                  /\ last'.sender = p /\ last'.status = "ok"
           /\ isInitialized(balances[p]) => isInitialized(balances'[p])]_vars

\* a ticket bought by a player who never purchased points gave it a
\* balance, and a round without reward kept it
C14_Witness ==
    /\ Done("playRound") /\ Dec(lastResults[last.sender].reward) = U32(0)
    /\ isInitialized(balances[last.sender])
    /\ progress[last.sender] = 4
    /\ Less32(U32(10000), Dec(balances[last.sender]))

C16_ViewsArePureReads ==
    [][last'.op \in {"getEncryptedBalance", "getTicket", "getLastDraw"} =>
         LET q == last'.input.player
             stored == CASE last'.op = "getEncryptedBalance" -> <<balances[q]>>
                         [] last'.op = "getTicket" ->
                              <<tickets[q].firstNumber, tickets[q].secondNumber,
                                tickets[q].exists>>
                         [] last'.op = "getLastDraw" ->
                              <<lastResults[q].firstWinning,
                                lastResults[q].secondWinning, lastResults[q].reward>>
             empty == CASE last'.op = "getEncryptedBalance" -> <<0>>
                        [] last'.op = "getTicket" -> <<0, 0, FALSE>>
                        [] last'.op = "getLastDraw" -> <<0, 0, 0>>
         IN  /\ last'.status = "ok"
             /\ StateUnchanged
             /\ last'.ret = stored
             /\ progress[q] = 0 => last'.ret = empty]_vars

\* a player read the balance handle of the other player, on which it holds
\* no grant
C16_Witness ==
    /\ last.op = "getEncryptedBalance" /\ last.status = "ok"
    /\ last.input.player # last.sender
    /\ isInitialized(last.ret[1])
    /\ last.ret[1] # balances[last.sender]
    /\ last.sender \notin acl[last.ret[1]]

\* the last call was a successful state-mutating operation
Mutated == last.status = "ok" /\ last.op \in {"purchasePoints", "purchaseTicket", "playRound"}

\* entry e1 comes before entry e2 in the statement log of the last call
Before(e1, e2) ==
    \E i, j \in DOMAIN last.log : i < j /\ last.log[i] = e1 /\ last.log[j] = e2

\* the handles the last call wrote into storage
StoredIn == {last.log[i][2] : i \in {k \in DOMAIN last.log : last.log[k][1] = "store"}}

\* the entries of the last call that created or admitted handle h
MadeIn(h) ==
    {last.log[i] : i \in {k \in DOMAIN last.log :
                            /\ last.log[k][1] \in {"literal", "compute", "admit", "random"}
                            /\ last.log[k][2] = h}}

\* the entries of the last call that admitted a ciphertext
AdmittedIn == {last.log[i] : i \in {k \in DOMAIN last.log : last.log[k][1] = "admit"}}

DrawnFor(p, r1, r2) ==
    LET t == playRoundDraw(Begin, p, r1, r2)
    IN  <<Plain(t, Local("winningFirst"))[2], Plain(t, Local("winningSecond"))[2]>>

\* C18: playRound draws two separate random bytes r1, r2 and its winning
\* numbers are (r1 mod 9) + 1 and (r2 mod 9) + 1, each in 1..9; over the
\* bytes 0..255 every pair of 1..9 x 1..9 can be drawn (checked on the
\* draw of the first ticket's holder).
C18_WinningNumbers ==
    /\ Done("playRound") =>
           /\ last.local["randomFirst"] # last.local["randomSecond"]
           /\ Dec(last.local["randomFirst"]) = <<0, last.input.r1>>
           /\ Dec(last.local["randomSecond"]) = <<0, last.input.r2>>
           /\ Dec(lastResults[last.sender].firstWinning) = <<0, (last.input.r1 % 9) + 1>>
           /\ Dec(lastResults[last.sender].secondWinning) = <<0, (last.input.r2 % 9) + 1>>
           /\ Dec(lastResults[last.sender].firstWinning)[2] \in 1..9
           /\ Dec(lastResults[last.sender].secondWinning)[2] \in 1..9
    /\ (nOps = 1 /\ Done("purchaseTicket")) =>
           /\ \A r \in 0..255 :
                  DrawnFor(last.sender, r, 255 - r) = <<(r % 9) + 1, ((255 - r) % 9) + 1>>
           /\ {DrawnFor(last.sender, r1, r2) : r1 \in 0..8, r2 \in 0..8}
                  = (1..9) \X (1..9)

\* a round whose first byte is above 9 and whose winning numbers differ
C18_Witness ==
    /\ Done("playRound") /\ last.input.r1 > 9
    /\ Dec(lastResults[last.sender].firstWinning)
           # Dec(lastResults[last.sender].secondWinning)

\* C19: a step leaves the balance handle, ticket, draw result and the
\* grants on the stored handles of every player unchanged, except the
\* caller's own when the step is its successful purchasePoints,
\* purchaseTicket or playRound.
C19_OtherAccountsUntouched ==
    [][\A b \in Players :
           (b # last'.sender \/ last'.status # "ok"
               \/ last'.op \notin {"purchasePoints", "purchaseTicket", "playRound"}) =>
               /\ balances'[b] = balances[b]
               /\ tickets'[b] = tickets[b]
               /\ lastResults'[b] = lastResults[b]
               /\ \A h \in StoredHandles(b) : acl'[h] = acl[h]]_vars

\* a player played a round while the other player held a balance and an
\* active ticket
C19_Witness ==
    /\ Done("playRound")
    /\ \E b \in Players \ {last.sender} :
           isInitialized(balances[b]) /\ tickets[b].exists

\* the state-mutating calls player p may issue, as <<function, caller, arguments>>:
\* every payment, every ticket input addressed to this contract (bound to p
\* or to another user), and draws with no, one and two matching numbers
CallsOf(p) ==
    {<<"purchasePoints", p, value>> : value \in EthAmounts}
        \cup {<<"purchaseTicket", p, enc>> : enc \in {e \in TicketInputs(p) : e[2][1] = Contract}}
        \cup {<<"playRound", p, <<r1, 253>>>> : r1 \in RandBytes}

\* the context the body of call c ends in when it is run on context t
RunBody(t, c) ==
    CASE c[1] = "purchasePoints" -> purchasePointsBody(t, c[2], c[3])
      [] c[1] = "purchaseTicket" ->
           purchaseTicketBody(t, c[2], 1, 2,
                              [values |-> c[3][1], target |-> c[3][2][1],
                               user |-> c[3][2][2]])
      [] c[1] = "playRound" -> playRoundBody(t, c[2], c[3][1], c[3][2])

\* the context the next call starts from once a body that started from t
\* and ended in u has committed or reverted
Settle(t, u) ==
    IF u.err = ""
    THEN [u EXCEPT !.transient = {}, !.local = [n \in Locals |-> 0], !.log = <<>>]
    ELSE t

\* the calls of player p from the current state, each with the context its body ends in
FirstCalls(p) == {<<c, RunBody(Begin, c)>> : c \in CallsOf(p)}

\* what is observable of player p's account in context t: the decrypted
\* values, the active flag and the grant holders of each slot
Account(t, p) ==
    LET slots == <<t.balances[p], t.tickets[p].firstNumber, t.tickets[p].secondNumber,
                   t.lastResults[p].firstWinning, t.lastResults[p].secondWinning,
                   t.lastResults[p].reward>>
    IN  [values |-> [i \in 1..6 |-> IF isInitialized(slots[i])
                                    THEN t.cipher[slots[i]].v ELSE <<0, 0>>],
         holders |-> [i \in 1..6 |-> IF isInitialized(slots[i])
                                     THEN t.acl[slots[i]] ELSE {}],
         exists |-> t.tickets[p].exists]

\* C20: state-mutating calls of different players commute: from any state
\* with room for two more calls, a call of A followed by a call of B and
\* the same calls in the other order have the same outcomes and leave the
\* same observable accounts (decrypted values, active flags, grant holders).
C20_CallsCommute ==
    nOps + 2 <= MaxOps =>
        \A a \in Players : \A b \in Players \ {a} :
            \A xa \in FirstCalls(a) : \A xb \in FirstCalls(b) :
                \A ta \in {Settle(Begin, xa[2])} : \A tb \in {Settle(Begin, xb[2])} :
                    \A uab \in {RunBody(ta, xb[1])} : \A uba \in {RunBody(tb, xa[1])} :
                        /\ uab.err = xb[2].err
                        /\ uba.err = xa[2].err
                        /\ \A p \in Players :
                               Account(Settle(ta, uab), p) = Account(Settle(tb, uba), p)

\* a player holds an active ticket: its round and the other player's ticket
\* purchase both succeed, and the handles they store depend on the order
C20_Witness ==
    /\ nOps + 2 <= MaxOps
    /\ \E a \in Players : \E b \in Players \ {a} :
          \E xa \in FirstCalls(a) : \E xb \in FirstCalls(b) :
              \E ta \in {Settle(Begin, xa[2])} : \E tb \in {Settle(Begin, xb[2])} :
                  \E uab \in {RunBody(ta, xb[1])} : \E uba \in {RunBody(tb, xa[1])} :
                      /\ xa[1][1] = "playRound" /\ xb[1][1] = "purchaseTicket"
                      /\ xa[2].err = "" /\ xb[2].err = ""
                      /\ uab.err = "" /\ uba.err = ""
                      /\ Settle(ta, uab).balances[b] # Settle(tb, uba).balances[b]

\* the handles the last call created or admitted, in order
CreatedIn ==
    [i \in {k \in DOMAIN last.log :
              last.log[k][1] \in {"literal", "compute", "admit", "random"}}
        |-> last.log[i][2]]

\* C21: handles are fresh and immutable: a step keeps every existing handle
\* with its plaintext; the handles a call creates (literals, results, random
\* bytes, admitted inputs) are new and pairwise different; a successful
\* state-mutating call stores a new balance handle; no handle is stored in
\* the accounts of two players.
C21_FreshImmutable ==
    [][/\ \A h \in DOMAIN cipher : h \in DOMAIN cipher' /\ cipher'[h] = cipher[h]
       /\ \A i \in DOMAIN CreatedIn' :
              /\ CreatedIn'[i] \notin DOMAIN cipher
              /\ CreatedIn'[i] \in DOMAIN cipher'
              /\ \A j \in DOMAIN CreatedIn' : i # j => CreatedIn'[i] # CreatedIn'[j]
       /\ Mutated' =>
              /\ isInitialized(balances'[last'.sender])
              /\ balances'[last'.sender] \notin DOMAIN cipher
       /\ \A p \in Players : \A q \in Players \ {p} :
              StoredHandles(p)' \cap StoredHandles(q)' = {}]_vars

\* both players hold the same balance behind different handles, the second
\* one stored by a round without reward
C21_Witness ==
    /\ Done("playRound") /\ Dec(lastResults[last.sender].reward) = U32(0)
    /\ isInitialized(last.prev.balance)
    /\ \E q \in Players \ {last.sender} :
           /\ isInitialized(balances[q])
           /\ balances[q] # balances[last.sender]
           /\ cipher[balances[q]] = cipher[balances[last.sender]]

\* the handles the last call read as operands of a computation
UsedIn == {last.log[i][2] : i \in {k \in DOMAIN last.log : last.log[k][1] = "use"}}

\* player p holds a ticket that was played and not replaced
Consumed(p) == ~tickets[p].exists /\ isInitialized(tickets[p].firstNumber)

\* C22: a successful playRound leaves the caller's two pick handles where
\* they were, with the ticket inactive and the caller's and the contract's
\* grants on them; while a played ticket is not replaced by its owner's
\* purchaseTicket, no call reads its picks as operands, and getTicket keeps
\* returning them.
C22_PicksKeptNotReused ==
    [][/\ (last'.op = "playRound" /\ last'.status = "ok") =>
              \E s \in Players :
                  /\ s = last'.sender
                  /\ getTicket(s)'
                         = <<tickets[s].firstNumber, tickets[s].secondNumber, FALSE>>
                  /\ \A i \in 1..2 :
                         /\ isInitialized(getTicket(s)[i])
                         /\ {Contract, s} \subseteq acl'[getTicket(s)[i]]
       /\ \A p \in Players :
              Consumed(p) =>
                  /\ {tickets[p].firstNumber, tickets[p].secondNumber} \cap UsedIn' = {}
                  /\ {Contract, p} \subseteq acl'[tickets[p].firstNumber]
                  /\ {Contract, p} \subseteq acl'[tickets[p].secondNumber]
                  /\ \/ getTicket(p)' = getTicket(p)
                     \/ /\ last'.op = "purchaseTicket" /\ last'.sender = p
                        /\ last'.status = "ok" /\ tickets'[p].exists]_vars

\* after its round the player bought points: a computation on its account
\* while the played ticket is still in place
C22_Witness ==
    /\ Done("purchasePoints") /\ Consumed(last.sender)
    /\ isInitialized(last.prev.draw.reward)
    /\ last.prev.balance \in UsedIn
    /\ tickets[last.sender] = last.prev.ticket

\* the draw result a context holds for player p, as getLastDraw returns it
DrawOf(t, p) ==
    <<t.lastResults[p].firstWinning, t.lastResults[p].secondWinning,
      t.lastResults[p].reward>>

\* the three handles a playRound body that ended in context u returns
Returned(u) ==
    <<u.local["winningFirst"], u.local["winningSecond"], u.local["reward"]>>

\* C23: getLastDraw(P) returns the three handles returned by P's most recent
\* successful playRound, the zero handles if there was none: it starts at
\* the zero handles, a successful playRound of P replaces all three by the
\* handles it returns, and every other step (purchasePoints, purchaseTicket,
\* a failed call, a view, a call of another player) leaves it unchanged;
\* a player that has just played and buys a new ticket has its next round
\* replace all three handles again.
C23_LastDrawIsLatestRound ==
    /\ \A p \in Players : getLastDraw(p) = <<0, 0, 0>>
    /\ [][\A p \in Players :
              IF last'.op = "playRound" /\ last'.status = "ok" /\ last'.sender = p
              THEN /\ getLastDraw(p)' = last'.ret
                   /\ \A i \in 1..3 :
                          /\ isInitialized(getLastDraw(p)'[i])
                          /\ getLastDraw(p)'[i] \notin DOMAIN cipher
              ELSE getLastDraw(p)' = getLastDraw(p)]_vars
    /\ [](Done("playRound") =>
            \A r1 \in RandBytes :
                \A t1 \in {Settle(Begin, RunBody(Begin,
                               <<"purchaseTicket", last.sender,
                                 <<<<1, 2>>, <<Contract, last.sender>>>>>>))} :
                    \A u \in {RunBody(t1, <<"playRound", last.sender, <<r1, 253>>>>)} :
                        /\ DrawOf(t1, last.sender) = getLastDraw(last.sender)
                        /\ u.err = ""
                        /\ DrawOf(u, last.sender) = Returned(u)
                        /\ \A i \in 1..3 :
                               DrawOf(u, last.sender)[i] \notin DOMAIN cipher)

\* a player played a round, then bought a ticket: getLastDraw still returns
\* the handles of that round
C23_Witness ==
    /\ Done("purchaseTicket")
    /\ \A i \in 1..3 : isInitialized(getLastDraw(last.sender)[i])
    /\ getLastDraw(last.sender)
           = <<last.prev.draw.firstWinning, last.prev.draw.secondWinning,
               last.prev.draw.reward>>

\* C24: in every state each player's decrypted balance, an empty account
\* counting as 0, is (points of its successful purchasePoints calls - 10 *
\* number of its successful purchaseTicket calls + rewards of its
\* successful playRound calls) modulo 2^32.
C24_BalanceConservation ==
    \A p \in Players :
        Dec(balances[p])
            = Add32(Sub32(ledger[p].credited, U32(TICKET_COST * ledger[p].tickets)),
                    ledger[p].rewards)

\* a purchase worth 2^32 + 4 points, a ticket and a rewarded round: the
\* balance passed below zero and back
C24_Witness ==
    \E p \in Players :
        /\ ledger[p].credited = U32(4) /\ ledger[p].tickets = 1
        /\ ledger[p].rewards = U32(ONE_MATCH_REWARD)
        /\ Dec(balances[p]) = U32(94)

\* C25: a ticket is played at most once: no player has more successful
\* playRound calls than successful purchaseTicket calls, and a playRound of
\* a player with no successful purchaseTicket since its last successful
\* playRound fails.
C25_PlayedAtMostOnce ==
    /\ [](\A p \in Players : ledger[p].rounds <= ledger[p].tickets)
    /\ [][\A p \in Players :
              (last'.op = "playRound" /\ last'.sender = p /\ ledger[p].since = 0) =>
                  /\ last'.status = NoActiveTicket
                  /\ ledger'[p] = ledger[p]]_vars

\* a ticket was bought and played; the next playRound failed
C25_Witness ==
    /\ last.op = "playRound" /\ last.status = NoActiveTicket
    /\ ledger[last.sender].rounds = 1 /\ ledger[last.sender].tickets = 1

\* invocation i of flagged handler h ends its try block in this step
Completes(h, i) ==
    /\ i \in DOMAIN ui.running[h]
    /\ ui.running[h][i].pc = "read"
    /\ ui'.running[h] = Remove(ui.running[h], i)

\* C26: when handlePurchasePoints, handlePurchaseTicket or handlePlayRound
\* completes successfully, the client's ticketCipher.exists, and with it
\* hasTicket, equals the contract's active flag of the connected address.
C26_TicketCacheAgrees ==
    [][\A h \in Flagged : \A i \in DOMAIN ui.running[h] :
           Completes(h, i) =>
               /\ ui'.ticketCipher.exists = tickets'[Address].exists
               /\ hasTicket(ui') = tickets'[Address].exists]_vars

\* the plaintext shown for a handle of the connected address
Shown(h) == IF h \in DOMAIN cipher THEN toString(cipher[h].v) ELSE NullString

\* C27: whenever balancePlain, ticketPlain or drawPlain is not null, it is
\* the decryption of the handles held in balanceHandle, ticketCipher and
\* drawCipher at that moment.
C27_PlainMatchesHandle ==
    /\ ui.balancePlain # NullString => ui.balancePlain = Shown(ui.balanceHandle)
    /\ ui.ticketPlain # <<NullString, NullString>> =>
           ui.ticketPlain = <<Shown(ui.ticketCipher.first), Shown(ui.ticketCipher.second)>>
    /\ ui.drawPlain # <<NullString, NullString, NullString>> =>
           ui.drawPlain = <<Shown(ui.drawCipher.first), Shown(ui.drawCipher.second),
                            Shown(ui.drawCipher.reward)>>

\* the decrypt request of handleDecryptBalance for handles returns the
\* plaintext in this step
BalanceDecrypted(handles) ==
    /\ handles \in ui.decrypting.balance
    /\ handles \notin ui'.decrypting.balance
    /\ ui'.status = ui.status
    /\ ui.status # "Could not decrypt balance. Please retry."

\* C28: when handleDecryptBalance succeeds on a non-zero handle whose
\* plaintext is n, balancePlain becomes the decimal string of n, n = 0
\* included.
C28_BalanceTextIsDecimal ==
    [][\A handles \in ui.decrypting.balance :
           (BalanceDecrypted(handles) /\ handles[1] # ZERO_HANDLE) =>
               ui'.balancePlain = toString(cipher[handles[1]].v)]_vars

\* C29: a busy flag is true exactly while an invocation of its own handler
\* is in flight, at most one invocation of a handler is in flight at a time,
\* and a flag that is true is eventually false again, whether the
\* transaction succeeded or failed.
C29_BusyFlags ==
    /\ [](\A h \in Flagged :
              /\ ui[Flag(h)] <=> ui.running[h] # <<>>
              /\ Len(ui.running[h]) <= 1)
    /\ \A h \in Flagged : ui[Flag(h)] ~> ~ui[Flag(h)]

\* a draw is being read back while a purchase waits for its transaction,
\* after a transaction of the client has failed
C29_Witness ==
    /\ ui.isDrawing /\ ui.isPurchasing /\ ~ui.isBuyingTicket
    /\ ui.running["handlePlayRound"][1].pc = "read"
    /\ ui.running["handlePurchasePoints"][1].pc = "tx"
    /\ ledger[Address].rounds = 1

====
